---------------------------- MODULE Spec2Model ----------------------------
(***************************************************************************)
(* Model of the rocketapi client: the transport adapter                    *)
(* (src/src/api.rs), the two envelope dispatchers                          *)
(* (InstagramAPI::request, ThreadsAPI::request) and the domain operations  *)
(* that build a payload and dispatch it.                                   *)
(*                                                                         *)
(* One client instance is modelled.  `request` takes &mut self and has a   *)
(* single await point (the transport call) before it touches the session   *)
(* state, so a domain operation of a single caller is one atomic step of   *)
(* the client (Spec, SpecOps).  SpecShared has several callers of the one  *)
(* instance and takes `request` statement by statement.                    *)
(***************************************************************************)
EXTENDS Integers, Sequences, FiniteSets, TLC

VARIABLES
    client,         \* which struct was constructed: "InstagramAPI" or "ThreadsAPI"
    last_response,  \* field last_response: serde_json::Value
    counter,        \* field counter: u32, kept as two 16-bit halves
    calls,          \* number of domain operations made by this run of the model
    h,              \* record of the most recent domain operation
    borrow,         \* the caller that holds the &mut borrow of the client, or "none"
    task,           \* per caller: where its dispatch stands, and its locals
    log             \* the counter at construction of the run and the documents
                    \* stored by the callers, in the order they were stored

vars == <<client, last_response, counter, calls, h, borrow, task, log>>

--------------------------------------------------------------------------
(* Bounds of the model.                                                    *)

\* domain operations explored from an initial state
MaxCalls == 2
\* longest id list handed to a *_bulk operation
MaxIds == 2

--------------------------------------------------------------------------
(* serde_json::Value.  A value is a record [k, v]: k is the variant, v its *)
(* content.  Numbers keep serde_json's distinction between an integer      *)
(* that fits i64 ("int") and a float ("float"): as_i64 answers only for    *)
(* the former.                                                             *)

JNull == [k |-> "null", v |-> 0]
JBool(b) == [k |-> "bool", v |-> b]
JInt(n) == [k |-> "int", v |-> n]
JFloat(n) == [k |-> "float", v |-> n]
JStr(s) == [k |-> "str", v |-> s]
JArr(q) == [k |-> "arr", v |-> q]
JObj(f) == [k |-> "obj", v |-> f]

\* Option<T>
None == [some |-> FALSE, val |-> 0]
Some(x) == [some |-> TRUE, val |-> x]

\* value[key] (impl Index<&str> for Value): the member of an object, Null
\* for a missing member and for every value that is not an object
Index(value, key) ==
    IF value.k = "obj" /\ key \in DOMAIN value.v THEN value.v[key] ELSE JNull

\* Value::as_i64().unwrap_or(d)
as_i64_unwrap_or(value, d) == IF value.k = "int" THEN value.v ELSE d

\* Value::as_str().unwrap_or(d)
as_str_unwrap_or(value, d) == IF value.k = "str" THEN value.v ELSE d

\* value == "literal" (impl PartialEq<&str> for Value)
eq_str(value, s) == value.k = "str" /\ value.v = s

--------------------------------------------------------------------------
(* u32 arithmetic.  A u32 is [hi, lo], its value hi * 2^16 + lo, so that   *)
(* the full 32-bit width is kept.                                          *)

Half == 2 ^ 16

U32(hi, lo) == [hi |-> hi, lo |-> lo]

U32Zero == U32(0, 0)

\* the mathematical successor of the number a u32 holds; it leaves the u32
\* range (hi = Half) exactly at 2^32 - 1
NatSucc(c) ==
    IF c.lo + 1 < Half THEN U32(c.hi, c.lo + 1) ELSE U32(c.hi + 1, 0)

\* c + n as a number, for the counts the properties compare a u32 with
RECURSIVE NatPlus(_, _)
NatPlus(c, n) == IF n = 0 THEN c ELSE NatSucc(NatPlus(c, n - 1))

\* u32 `+ 1` as a build without overflow checks computes it: modulo 2^32.
\* (A build with overflow checks aborts the call at 2^32 - 1 instead.)
counter_add1(c) == IF NatSucc(c).hi < Half THEN NatSucc(c) ELSE U32Zero

--------------------------------------------------------------------------
(* Results.                                                                *)

\* Result<Value, RocketAPIError>: Ok(v), Err(BadResponse(v)),
\* Err(NotFound(v)), Err(RequestError(e))
Ok(v) == [kind |-> "Ok", val |-> v]
BadResponse(v) == [kind |-> "BadResponse", val |-> v]
NotFound(v) == [kind |-> "NotFound", val |-> v]
RequestError(e) == [kind |-> "RequestError", val |-> e]

\* reqwest::Error with its cause
ReqwestError(cause) == [k |-> "reqwest::Error", v |-> cause]

--------------------------------------------------------------------------
(* The transport adapter, RocketAPI::request.  `net` is what the network   *)
(* does with the one POST: the client cannot be built, the send fails      *)
(* (timeout, connection fault), or an HTTP response arrives whose body is  *)
(* or is not a JSON document.                                              *)

\* Variant of the adapter: a response that is not 2xx is reported as a
\* failure.
RocketAPI_request_checks_status(method, data, net) ==
    IF net.phase = "build" THEN
        [ok |-> FALSE, val |-> ReqwestError("builder")]
    ELSE IF net.phase = "timeout" THEN
        [ok |-> FALSE, val |-> ReqwestError("timeout")]
    ELSE IF net.phase = "connect" THEN
        [ok |-> FALSE, val |-> ReqwestError("connect")]
    ELSE IF net.status # 200 THEN
        [ok |-> FALSE, val |-> ReqwestError("status")]
    ELSE IF ~net.json THEN
        [ok |-> FALSE, val |-> ReqwestError("decode")]
    ELSE
        [ok |-> TRUE, val |-> net.body]

RocketAPI_request(method, data, net) ==
    IF net.phase = "build" THEN
        [ok |-> FALSE, val |-> ReqwestError("builder")]
    ELSE IF net.phase = "timeout" THEN
        [ok |-> FALSE, val |-> ReqwestError("timeout")]
    ELSE IF net.phase = "connect" THEN
        [ok |-> FALSE, val |-> ReqwestError("connect")]
    ELSE IF ~net.json THEN
        [ok |-> FALSE, val |-> ReqwestError("decode")]
    ELSE
        [ok |-> TRUE, val |-> net.body]

--------------------------------------------------------------------------
(* InstagramAPI::request.  `self` is [last_response, counter]; the result  *)
(* is the new session state, the value returned, and the calls made to     *)
(* the adapter.                                                            *)

JSON == "application/json"

\* Variants of the Ok(response) arm, each with one slip; the properties
\* below are checked to tell each from the arm as written.
\*   "no_content_type": success does not test the content type
\*   "404_needs_json":  the 404 test also asks for application/json
\*   "no_status":       the outer status is not tested
\*   "not_200_is_404":  every code other than 200 counts as not found
\*   "default_200":     a missing status_code is taken as 200
\*   "needs_body":      success without a body member is a bad response
OkArmVariant(self, response, slip) ==
    LET response_body == Index(response, "response")
        status_code ==
            as_i64_unwrap_or(Index(response_body, "status_code"),
                             IF slip = "default_200" THEN 200 ELSE 0)
        content_type == as_str_unwrap_or(Index(response_body, "content_type"), "")
    IN  [last_response |-> response,
         counter |-> counter_add1(self.counter),
         result |->
            IF slip = "no_status" \/ eq_str(Index(response, "status"), "done") THEN
                IF status_code = 200
                   /\ (slip = "no_content_type" \/ content_type = JSON)
                   /\ (slip # "needs_body" \/ "body" \in DOMAIN response_body.v) THEN
                    Ok(Index(response_body, "body"))
                ELSE IF \/ status_code = 404
                           /\ (slip # "404_needs_json" \/ content_type = JSON)
                        \/ slip = "not_200_is_404" /\ status_code # 200 THEN
                    NotFound(response)
                ELSE
                    BadResponse(response)
            ELSE
                BadResponse(response)]

InstagramAPI_request_Ok_no_content_type(self, response) ==
    OkArmVariant(self, response, "no_content_type")
InstagramAPI_request_Ok_404_needs_json(self, response) ==
    OkArmVariant(self, response, "404_needs_json")
InstagramAPI_request_Ok_no_status(self, response) ==
    OkArmVariant(self, response, "no_status")
InstagramAPI_request_Ok_not_200_is_404(self, response) ==
    OkArmVariant(self, response, "not_200_is_404")
InstagramAPI_request_Ok_default_200(self, response) ==
    OkArmVariant(self, response, "default_200")
InstagramAPI_request_Ok_needs_body(self, response) ==
    OkArmVariant(self, response, "needs_body")

\* Variant of the Ok(response) arm that consults the session state: once
\* the last response was one that is not "done", every document is
\* refused.
InstagramAPI_request_Ok_stays_failed(self, response) ==
    IF self.last_response # JNull
       /\ ~eq_str(Index(self.last_response, "status"), "done")
    THEN [last_response |-> response,
          counter |-> counter_add1(self.counter),
          result |-> BadResponse(response)]
    ELSE OkArmVariant(self, response, "none")

\* the Ok(response) arm
InstagramAPI_request_Ok(self, response) ==
    LET response_body == Index(response, "response")
        status_code == as_i64_unwrap_or(Index(response_body, "status_code"), 0)
        content_type == as_str_unwrap_or(Index(response_body, "content_type"), "")
    IN  [last_response |-> response,
         counter |-> counter_add1(self.counter),
         result |->
            IF eq_str(Index(response, "status"), "done") THEN
                IF status_code = 200 /\ content_type = JSON THEN
                    Ok(Index(response_body, "body"))
                ELSE IF status_code = 404 THEN
                    NotFound(response)
                ELSE
                    BadResponse(response)
            ELSE
                BadResponse(response)]

\* Variants of the Err(e) arm: one counts the failed attempt, one reports
\* the failure as a bad response.
InstagramAPI_request_Err_counts(self, e) ==
    [last_response |-> self.last_response,
     counter |-> counter_add1(self.counter),
     result |-> RequestError(e)]

InstagramAPI_request_Err_as_BadResponse(self, e) ==
    [last_response |-> self.last_response,
     counter |-> self.counter,
     result |-> BadResponse(self.last_response)]

\* the Err(e) arm
InstagramAPI_request_Err(self, e) ==
    [last_response |-> self.last_response,
     counter |-> self.counter,
     result |-> RequestError(e)]

\* Variant of the adapter call: the request is sent a second time.
InstagramAPI_request_sends_twice(method, data) ==
    << [method |-> method, data |-> data], [method |-> method, data |-> data] >>

\* the adapter calls `request` makes: one, with its own arguments
InstagramAPI_request_sends(method, data) ==
    << [method |-> method, data |-> data] >>

InstagramAPI_request(self, method, data, net) ==
    LET r == RocketAPI_request(method, data, net)
        arm == IF r.ok THEN InstagramAPI_request_Ok(self, r.val)
                       ELSE InstagramAPI_request_Err(self, r.val)
    IN  [last_response |-> arm.last_response,
         counter |-> arm.counter,
         result |-> arm.result,
         sends |-> InstagramAPI_request_sends(method, data),
         tres |-> r]

--------------------------------------------------------------------------
(* ThreadsAPI::request: the same text in src/src/threadsapi.rs.            *)

\* Variant of the Threads Ok(response) arm: a 404 is a bad response like
\* every other code.
ThreadsAPI_request_Ok_without_NotFound(self, response) ==
    LET response_body == Index(response, "response")
        status_code == as_i64_unwrap_or(Index(response_body, "status_code"), 0)
        content_type == as_str_unwrap_or(Index(response_body, "content_type"), "")
    IN  [last_response |-> response,
         counter |-> counter_add1(self.counter),
         result |->
            IF eq_str(Index(response, "status"), "done")
               /\ status_code = 200 /\ content_type = JSON
            THEN Ok(Index(response_body, "body"))
            ELSE BadResponse(response)]

ThreadsAPI_request_Ok(self, response) ==
    LET response_body == Index(response, "response")
        status_code == as_i64_unwrap_or(Index(response_body, "status_code"), 0)
        content_type == as_str_unwrap_or(Index(response_body, "content_type"), "")
    IN  [last_response |-> response,
         counter |-> counter_add1(self.counter),
         result |->
            IF eq_str(Index(response, "status"), "done") THEN
                IF status_code = 200 /\ content_type = JSON THEN
                    Ok(Index(response_body, "body"))
                ELSE IF status_code = 404 THEN
                    NotFound(response)
                ELSE
                    BadResponse(response)
            ELSE
                BadResponse(response)]

ThreadsAPI_request_Err(self, e) ==
    [last_response |-> self.last_response,
     counter |-> self.counter,
     result |-> RequestError(e)]

ThreadsAPI_request_sends(method, data) ==
    << [method |-> method, data |-> data] >>

ThreadsAPI_request(self, method, data, net) ==
    LET r == RocketAPI_request(method, data, net)
        arm == IF r.ok THEN ThreadsAPI_request_Ok(self, r.val)
                       ELSE ThreadsAPI_request_Err(self, r.val)
    IN  [last_response |-> arm.last_response,
         counter |-> arm.counter,
         result |-> arm.result,
         sends |-> ThreadsAPI_request_sends(method, data),
         tres |-> r]

--------------------------------------------------------------------------
(* Payload construction.                                                   *)

\* Option::unwrap_or
unwrap_or(opt, d) == IF opt.some THEN opt.val ELSE d

\* payload[key] = json!(x) on an object: the member is added or replaced
Insert(obj, key, x) == JObj((key :> x) @@ obj.v)

\* the arguments the operations are called with
Ids == {1, 7}
Strs == {"a"}
OptStrs == {None, Some("a")}
OptCounts == {None, Some(50)}
OptBools == {None, Some(TRUE), Some(FALSE)}
OptPages == {None, Some(2)}
IdLists == UNION { [1 .. n -> Ids] : n \in 0 .. MaxIds }

\* an optional argument as the JSON value json!(x) makes of it when it is
\* given
OptStr(opt) == IF opt.some THEN Some(JStr(opt.val)) ELSE None
OptInt(opt) == IF opt.some THEN Some(JInt(opt.val)) ELSE None
OptBool(opt) == IF opt.some THEN Some(JBool(opt.val)) ELSE None
\* the operation has no optional argument
NoOpts == << >>

(* The domain operations of InstagramAPI.  Each is the sequence of        *)
(* `self.request` calls it makes, each with the method path and the        *)
(* payload the operation builds.                                           *)

InstagramAPI_search(query) ==
    LET payload0 == JObj("query" :> JStr(query))
    IN  << [method |-> "instagram/search", data |-> payload0] >>

InstagramAPI_get_user_info(username) ==
    LET payload0 == JObj("username" :> JStr(username))
    IN  << [method |-> "instagram/user/get_info", data |-> payload0] >>

InstagramAPI_get_user_info_by_id(user_id) ==
    LET payload0 == JObj("id" :> JInt(user_id))
    IN  << [method |-> "instagram/user/get_info_by_id", data |-> payload0] >>

InstagramAPI_get_user_media(user_id, count, max_id) ==
    LET payload0 == JObj("id" :> JInt(user_id) @@ "count" :> JInt(unwrap_or(count, 12)))
        payload1 == IF max_id.some THEN Insert(payload0, "max_id", JStr(max_id.val)) ELSE payload0
    IN  << [method |-> "instagram/user/get_media", data |-> payload1] >>

InstagramAPI_get_user_clips(user_id, count, max_id) ==
    LET payload0 == JObj("id" :> JInt(user_id) @@ "count" :> JInt(unwrap_or(count, 12)))
        payload1 == IF max_id.some THEN Insert(payload0, "max_id", JStr(max_id.val)) ELSE payload0
    IN  << [method |-> "instagram/user/get_clips", data |-> payload1] >>

\* Variant of get_user_guides: an absent max_id is sent as null.
InstagramAPI_get_user_guides_sends_null(user_id, max_id) ==
    LET payload0 == JObj("id" :> JInt(user_id))
        payload1 == Insert(payload0, "max_id",
                           IF max_id.some THEN JStr(max_id.val) ELSE JNull)
    IN  << [method |-> "instagram/user/get_guides", data |-> payload1] >>

InstagramAPI_get_user_guides(user_id, max_id) ==
    LET payload0 == JObj("id" :> JInt(user_id))
        payload1 == IF max_id.some THEN Insert(payload0, "max_id", JStr(max_id.val)) ELSE payload0
    IN  << [method |-> "instagram/user/get_guides", data |-> payload1] >>

InstagramAPI_get_user_tags(user_id, count, max_id) ==
    LET payload0 == JObj("id" :> JInt(user_id) @@ "count" :> JInt(unwrap_or(count, 12)))
        payload1 == IF max_id.some THEN Insert(payload0, "max_id", JStr(max_id.val)) ELSE payload0
    IN  << [method |-> "instagram/user/get_tags", data |-> payload1] >>

InstagramAPI_get_user_following(user_id, count, max_id) ==
    LET payload0 == JObj("id" :> JInt(user_id) @@ "count" :> JInt(unwrap_or(count, 12)))
        payload1 == IF max_id.some THEN Insert(payload0, "max_id", JStr(max_id.val)) ELSE payload0
    IN  << [method |-> "instagram/user/get_following", data |-> payload1] >>

InstagramAPI_search_user_following(user_id, query) ==
    LET payload0 == JObj("id" :> JInt(user_id) @@ "query" :> JStr(query))
    IN  << [method |-> "instagram/user/get_following", data |-> payload0] >>

InstagramAPI_get_user_followers(user_id, count, max_id) ==
    LET payload0 == JObj("id" :> JInt(user_id) @@ "count" :> JInt(unwrap_or(count, 12)))
        payload1 == IF max_id.some THEN Insert(payload0, "max_id", JStr(max_id.val)) ELSE payload0
    IN  << [method |-> "instagram/user/get_followers", data |-> payload1] >>

InstagramAPI_search_user_followers(user_id, query) ==
    LET payload0 == JObj("id" :> JInt(user_id) @@ "query" :> JStr(query))
    IN  << [method |-> "instagram/user/get_followers", data |-> payload0] >>

InstagramAPI_get_user_stories_bulk(user_ids) ==
    LET payload0 == JObj("ids" :> JArr([i \in DOMAIN user_ids |-> JInt(user_ids[i])]))
    IN  << [method |-> "instagram/user/get_stories", data |-> payload0] >>

InstagramAPI_get_user_stories(user_id) ==
    InstagramAPI_get_user_stories_bulk(<< user_id >>)

InstagramAPI_get_user_highlights(user_id) ==
    LET payload0 == JObj("id" :> JInt(user_id))
    IN  << [method |-> "instagram/user/get_highlights", data |-> payload0] >>

InstagramAPI_get_user_live(user_id) ==
    LET payload0 == JObj("id" :> JInt(user_id))
    IN  << [method |-> "instagram/user/get_live", data |-> payload0] >>

InstagramAPI_get_user_similar_accounts(user_id) ==
    LET payload0 == JObj("id" :> JInt(user_id))
    IN  << [method |-> "instagram/user/get_similar_accounts", data |-> payload0] >>

InstagramAPI_get_media_info(media_id) ==
    LET payload0 == JObj("id" :> JInt(media_id))
    IN  << [method |-> "instagram/media/get_info", data |-> payload0] >>

InstagramAPI_get_media_info_by_shortcode(shortcode) ==
    LET payload0 == JObj("shortcode" :> JStr(shortcode))
    IN  << [method |-> "instagram/media/get_info_by_shortcode", data |-> payload0] >>

InstagramAPI_get_media_likes(shortcode, count, max_id) ==
    LET payload0 == JObj("shortcode" :> JStr(shortcode) @@ "count" :> JInt(unwrap_or(count, 12)))
        payload1 == IF max_id.some THEN Insert(payload0, "max_id", JStr(max_id.val)) ELSE payload0
    IN  << [method |-> "instagram/media/get_likes", data |-> payload1] >>

InstagramAPI_get_media_comments(media_id, can_support_threading, min_id) ==
    LET payload0 == JObj("media_id" :> JInt(media_id) @@ "can_support_threading" :> JBool(unwrap_or(can_support_threading, TRUE)))
        payload1 == IF min_id.some THEN Insert(payload0, "min_id", JStr(min_id.val)) ELSE payload0
    IN  << [method |-> "instagram/media/get_comments", data |-> payload1] >>

InstagramAPI_get_media_shortcode_by_id(media_id) ==
    LET payload0 == JObj("id" :> JInt(media_id))
    IN  << [method |-> "instagram/media/get_shortcode_by_id", data |-> payload0] >>

InstagramAPI_get_media_id_by_shortcode(shortcode) ==
    LET payload0 == JObj("shortcode" :> JStr(shortcode))
    IN  << [method |-> "instagram/media/get_id_by_shortcode", data |-> payload0] >>

InstagramAPI_get_guide_info(guide_id) ==
    LET payload0 == JObj("id" :> JInt(guide_id))
    IN  << [method |-> "instagram/guide/get_info", data |-> payload0] >>

InstagramAPI_get_location_info(location_id) ==
    LET payload0 == JObj("id" :> JInt(location_id))
    IN  << [method |-> "instagram/location/get_info", data |-> payload0] >>

InstagramAPI_get_location_media(location_id, page, max_id) ==
    LET payload0 == JObj("id" :> JInt(location_id))
        payload1 == IF page.some THEN Insert(payload0, "page", JInt(page.val)) ELSE payload0
        payload2 == IF max_id.some THEN Insert(payload1, "max_id", JStr(max_id.val)) ELSE payload1
    IN  << [method |-> "instagram/location/get_media", data |-> payload2] >>

InstagramAPI_get_hashtag_info(name) ==
    LET payload0 == JObj("name" :> JStr(name))
    IN  << [method |-> "instagram/hashtag/get_info", data |-> payload0] >>

InstagramAPI_get_hashtag_media(name, page, max_id) ==
    LET payload0 == JObj("name" :> JStr(name))
        payload1 == IF page.some THEN Insert(payload0, "page", JInt(page.val)) ELSE payload0
        payload2 == IF max_id.some THEN Insert(payload1, "max_id", JStr(max_id.val)) ELSE payload1
    IN  << [method |-> "instagram/hashtag/get_media", data |-> payload2] >>

InstagramAPI_get_highlight_stories_bulk(highlight_ids) ==
    LET payload0 == JObj("ids" :> JArr([i \in DOMAIN highlight_ids |-> JInt(highlight_ids[i])]))
    IN  << [method |-> "instagram/highlight/get_stories", data |-> payload0] >>

InstagramAPI_get_highlight_stories(highlight_id) ==
    InstagramAPI_get_highlight_stories_bulk(<< highlight_id >>)

InstagramAPI_get_comment_likes(comment_id, max_id) ==
    LET payload0 == JObj("id" :> JInt(comment_id))
        payload1 == IF max_id.some THEN Insert(payload0, "max_id", JStr(max_id.val)) ELSE payload0
    IN  << [method |-> "instagram/comment/get_likes", data |-> payload1] >>

InstagramAPI_get_comment_replies(comment_id, media_id, max_id) ==
    LET payload0 == JObj("id" :> JInt(comment_id) @@ "media_id" :> JInt(media_id))
        payload1 == IF max_id.some THEN Insert(payload0, "max_id", JStr(max_id.val)) ELSE payload0
    IN  << [method |-> "instagram/comment/get_replies", data |-> payload1] >>

InstagramAPI_get_audio_media(audio_id, max_id) ==
    LET payload0 == JObj("id" :> JInt(audio_id))
        payload1 == IF max_id.some THEN Insert(payload0, "max_id", JStr(max_id.val)) ELSE payload0
    IN  << [method |-> "instagram/audio/get_media", data |-> payload1] >>

InstagramAPI_get_user_about(user_id) ==
    LET payload0 == JObj("id" :> JInt(user_id))
    IN  << [method |-> "instagram/user/get_about", data |-> payload0] >>

\* every call of a public operation of InstagramAPI, over the argument sets
InstagramAPICalls ==
    UNION {
        { [op |-> "search", reqs |-> InstagramAPI_search(query),
            opts |-> NoOpts]
            : query \in Strs },
        { [op |-> "get_user_info", reqs |-> InstagramAPI_get_user_info(username),
            opts |-> NoOpts]
            : username \in Strs },
        { [op |-> "get_user_info_by_id", reqs |-> InstagramAPI_get_user_info_by_id(user_id),
            opts |-> NoOpts]
            : user_id \in Ids },
        { [op |-> "get_user_media", reqs |-> InstagramAPI_get_user_media(user_id, count, max_id),
            opts |-> [count |-> OptInt(count), max_id |-> OptStr(max_id)]]
            : user_id \in Ids, count \in OptCounts, max_id \in OptStrs },
        { [op |-> "get_user_clips", reqs |-> InstagramAPI_get_user_clips(user_id, count, max_id),
            opts |-> [count |-> OptInt(count), max_id |-> OptStr(max_id)]]
            : user_id \in Ids, count \in OptCounts, max_id \in OptStrs },
        { [op |-> "get_user_guides", reqs |-> InstagramAPI_get_user_guides(user_id, max_id),
            opts |-> [max_id |-> OptStr(max_id)]]
            : user_id \in Ids, max_id \in OptStrs },
        { [op |-> "get_user_tags", reqs |-> InstagramAPI_get_user_tags(user_id, count, max_id),
            opts |-> [count |-> OptInt(count), max_id |-> OptStr(max_id)]]
            : user_id \in Ids, count \in OptCounts, max_id \in OptStrs },
        { [op |-> "get_user_following", reqs |-> InstagramAPI_get_user_following(user_id, count, max_id),
            opts |-> [count |-> OptInt(count), max_id |-> OptStr(max_id)]]
            : user_id \in Ids, count \in OptCounts, max_id \in OptStrs },
        { [op |-> "search_user_following", reqs |-> InstagramAPI_search_user_following(user_id, query),
            opts |-> NoOpts]
            : user_id \in Ids, query \in Strs },
        { [op |-> "get_user_followers", reqs |-> InstagramAPI_get_user_followers(user_id, count, max_id),
            opts |-> [count |-> OptInt(count), max_id |-> OptStr(max_id)]]
            : user_id \in Ids, count \in OptCounts, max_id \in OptStrs },
        { [op |-> "search_user_followers", reqs |-> InstagramAPI_search_user_followers(user_id, query),
            opts |-> NoOpts]
            : user_id \in Ids, query \in Strs },
        { [op |-> "get_user_stories_bulk", reqs |-> InstagramAPI_get_user_stories_bulk(user_ids),
            opts |-> NoOpts]
            : user_ids \in IdLists },
        { [op |-> "get_user_stories", reqs |-> InstagramAPI_get_user_stories(user_id),
            opts |-> NoOpts]
            : user_id \in Ids },
        { [op |-> "get_user_highlights", reqs |-> InstagramAPI_get_user_highlights(user_id),
            opts |-> NoOpts]
            : user_id \in Ids },
        { [op |-> "get_user_live", reqs |-> InstagramAPI_get_user_live(user_id),
            opts |-> NoOpts]
            : user_id \in Ids },
        { [op |-> "get_user_similar_accounts", reqs |-> InstagramAPI_get_user_similar_accounts(user_id),
            opts |-> NoOpts]
            : user_id \in Ids },
        { [op |-> "get_media_info", reqs |-> InstagramAPI_get_media_info(media_id),
            opts |-> NoOpts]
            : media_id \in Ids },
        { [op |-> "get_media_info_by_shortcode", reqs |-> InstagramAPI_get_media_info_by_shortcode(shortcode),
            opts |-> NoOpts]
            : shortcode \in Strs },
        { [op |-> "get_media_likes", reqs |-> InstagramAPI_get_media_likes(shortcode, count, max_id),
            opts |-> [count |-> OptInt(count), max_id |-> OptStr(max_id)]]
            : shortcode \in Strs, count \in OptCounts, max_id \in OptStrs },
        { [op |-> "get_media_comments", reqs |-> InstagramAPI_get_media_comments(media_id, can_support_threading, min_id),
            opts |-> [can_support_threading |-> OptBool(can_support_threading), min_id |-> OptStr(min_id)]]
            : media_id \in Ids, can_support_threading \in OptBools, min_id \in OptStrs },
        { [op |-> "get_media_shortcode_by_id", reqs |-> InstagramAPI_get_media_shortcode_by_id(media_id),
            opts |-> NoOpts]
            : media_id \in Ids },
        { [op |-> "get_media_id_by_shortcode", reqs |-> InstagramAPI_get_media_id_by_shortcode(shortcode),
            opts |-> NoOpts]
            : shortcode \in Strs },
        { [op |-> "get_guide_info", reqs |-> InstagramAPI_get_guide_info(guide_id),
            opts |-> NoOpts]
            : guide_id \in Ids },
        { [op |-> "get_location_info", reqs |-> InstagramAPI_get_location_info(location_id),
            opts |-> NoOpts]
            : location_id \in Ids },
        { [op |-> "get_location_media", reqs |-> InstagramAPI_get_location_media(location_id, page, max_id),
            opts |-> [page |-> OptInt(page), max_id |-> OptStr(max_id)]]
            : location_id \in Ids, page \in OptPages, max_id \in OptStrs },
        { [op |-> "get_hashtag_info", reqs |-> InstagramAPI_get_hashtag_info(name),
            opts |-> NoOpts]
            : name \in Strs },
        { [op |-> "get_hashtag_media", reqs |-> InstagramAPI_get_hashtag_media(name, page, max_id),
            opts |-> [page |-> OptInt(page), max_id |-> OptStr(max_id)]]
            : name \in Strs, page \in OptPages, max_id \in OptStrs },
        { [op |-> "get_highlight_stories_bulk", reqs |-> InstagramAPI_get_highlight_stories_bulk(highlight_ids),
            opts |-> NoOpts]
            : highlight_ids \in IdLists },
        { [op |-> "get_highlight_stories", reqs |-> InstagramAPI_get_highlight_stories(highlight_id),
            opts |-> NoOpts]
            : highlight_id \in Ids },
        { [op |-> "get_comment_likes", reqs |-> InstagramAPI_get_comment_likes(comment_id, max_id),
            opts |-> [max_id |-> OptStr(max_id)]]
            : comment_id \in Ids, max_id \in OptStrs },
        { [op |-> "get_comment_replies", reqs |-> InstagramAPI_get_comment_replies(comment_id, media_id, max_id),
            opts |-> [max_id |-> OptStr(max_id)]]
            : comment_id \in Ids, media_id \in Ids, max_id \in OptStrs },
        { [op |-> "get_audio_media", reqs |-> InstagramAPI_get_audio_media(audio_id, max_id),
            opts |-> [max_id |-> OptStr(max_id)]]
            : audio_id \in Ids, max_id \in OptStrs },
        { [op |-> "get_user_about", reqs |-> InstagramAPI_get_user_about(user_id),
            opts |-> NoOpts]
            : user_id \in Ids }
    }

--------------------------------------------------------------------------
(* The domain operations of ThreadsAPI, in the same form.                 *)

ThreadsAPI_search_users(query, rank_token, page_token) ==
    LET payload0 == JObj("query" :> JStr(query))
        payload1 == IF rank_token.some THEN Insert(payload0, "rank_token", JStr(rank_token.val)) ELSE payload0
        payload2 == IF page_token.some THEN Insert(payload1, "page_token", JStr(page_token.val)) ELSE payload1
    IN  << [method |-> "threads/search_users", data |-> payload2] >>

ThreadsAPI_get_user_info(user_id) ==
    LET payload0 == JObj("id" :> JInt(user_id))
    IN  << [method |-> "threads/user/get_info", data |-> payload0] >>

ThreadsAPI_get_user_feed(user_id, max_id) ==
    LET payload0 == JObj("id" :> JInt(user_id))
        payload1 == IF max_id.some THEN Insert(payload0, "max_id", JStr(max_id.val)) ELSE payload0
    IN  << [method |-> "threads/user/get_feed", data |-> payload1] >>

ThreadsAPI_get_user_replies(user_id, max_id) ==
    LET payload0 == JObj("id" :> JInt(user_id))
        payload1 == IF max_id.some THEN Insert(payload0, "max_id", JStr(max_id.val)) ELSE payload0
    IN  << [method |-> "threads/user/get_replies", data |-> payload1] >>

ThreadsAPI_get_user_followers(user_id, max_id) ==
    LET payload0 == JObj("id" :> JInt(user_id))
        payload1 == IF max_id.some THEN Insert(payload0, "max_id", JStr(max_id.val)) ELSE payload0
    IN  << [method |-> "threads/user/get_followers", data |-> payload1] >>

ThreadsAPI_search_user_followers(user_id, query) ==
    LET payload0 == JObj("id" :> JInt(user_id) @@ "query" :> JStr(query))
    IN  << [method |-> "threads/user/get_followers", data |-> payload0] >>

ThreadsAPI_get_user_following(user_id, max_id) ==
    LET payload0 == JObj("id" :> JInt(user_id))
        payload1 == IF max_id.some THEN Insert(payload0, "max_id", JStr(max_id.val)) ELSE payload0
    IN  << [method |-> "threads/user/get_following", data |-> payload1] >>

ThreadsAPI_search_user_following(user_id, query) ==
    LET payload0 == JObj("id" :> JInt(user_id) @@ "query" :> JStr(query))
    IN  << [method |-> "threads/user/get_following", data |-> payload0] >>

ThreadsAPI_get_thread_replies(thread_id, max_id) ==
    LET payload0 == JObj("id" :> JInt(thread_id))
        payload1 == IF max_id.some THEN Insert(payload0, "max_id", JStr(max_id.val)) ELSE payload0
    IN  << [method |-> "threads/thread/get_replies", data |-> payload1] >>

ThreadsAPI_get_thread_likes(thread_id) ==
    LET payload0 == JObj("id" :> JInt(thread_id))
    IN  << [method |-> "threads/thread/get_likes", data |-> payload0] >>

\* every call of a public operation of ThreadsAPI, over the argument sets
ThreadsAPICalls ==
    UNION {
        { [op |-> "search_users", reqs |-> ThreadsAPI_search_users(query, rank_token, page_token),
            opts |-> [rank_token |-> OptStr(rank_token), page_token |-> OptStr(page_token)]]
            : query \in Strs, rank_token \in OptStrs, page_token \in OptStrs },
        { [op |-> "get_user_info", reqs |-> ThreadsAPI_get_user_info(user_id),
            opts |-> NoOpts]
            : user_id \in Ids },
        { [op |-> "get_user_feed", reqs |-> ThreadsAPI_get_user_feed(user_id, max_id),
            opts |-> [max_id |-> OptStr(max_id)]]
            : user_id \in Ids, max_id \in OptStrs },
        { [op |-> "get_user_replies", reqs |-> ThreadsAPI_get_user_replies(user_id, max_id),
            opts |-> [max_id |-> OptStr(max_id)]]
            : user_id \in Ids, max_id \in OptStrs },
        { [op |-> "get_user_followers", reqs |-> ThreadsAPI_get_user_followers(user_id, max_id),
            opts |-> [max_id |-> OptStr(max_id)]]
            : user_id \in Ids, max_id \in OptStrs },
        { [op |-> "search_user_followers", reqs |-> ThreadsAPI_search_user_followers(user_id, query),
            opts |-> NoOpts]
            : user_id \in Ids, query \in Strs },
        { [op |-> "get_user_following", reqs |-> ThreadsAPI_get_user_following(user_id, max_id),
            opts |-> [max_id |-> OptStr(max_id)]]
            : user_id \in Ids, max_id \in OptStrs },
        { [op |-> "search_user_following", reqs |-> ThreadsAPI_search_user_following(user_id, query),
            opts |-> NoOpts]
            : user_id \in Ids, query \in Strs },
        { [op |-> "get_thread_replies", reqs |-> ThreadsAPI_get_thread_replies(thread_id, max_id),
            opts |-> [max_id |-> OptStr(max_id)]]
            : thread_id \in Ids, max_id \in OptStrs },
        { [op |-> "get_thread_likes", reqs |-> ThreadsAPI_get_thread_likes(thread_id),
            opts |-> NoOpts]
            : thread_id \in Ids }
    }

--------------------------------------------------------------------------
(* The documents the service may answer with.  Under status "done" every  *)
(* combination of a present, absent or mistyped status_code, content_type  *)
(* and body, and a response that is absent or no object; under every other *)
(* status (absent and mistyped included) the response shapes of a success, *)
(* of a 404, of no object and of no response; and two documents that are   *)
(* not objects.                                                            *)

Absent == [k |-> "absent", v |-> 0]

\* the object whose members are the fields of f that are not Absent
MkObj(f) == JObj([key \in {x \in DOMAIN f : f[x] # Absent} |-> f[key]])

StatusCodes ==
    {Absent, JInt(200), JInt(404), JInt(500), JStr("404"), JFloat(200)}
ContentTypes == {Absent, JStr(JSON), JStr("text/html"), JNull}
Bodies == {Absent, JObj("a" :> JInt(1))}

Response(status_code, content_type, body) ==
    MkObj([status_code |-> status_code, content_type |-> content_type,
           body |-> body])

Responses ==
    {Absent, JNull, JStr("r")} \cup
    { Response(sc, ct, b) : sc \in StatusCodes, ct \in ContentTypes, b \in Bodies }

OtherStatuses == {Absent, JStr("pending"), JInt(1)}
OtherResponses ==
    {Absent, JStr("r"),
     Response(JInt(200), JStr(JSON), JObj("a" :> JInt(1))),
     Response(JInt(404), JStr(JSON), Absent)}

Documents ==
    { MkObj([status |-> JStr("done"), response |-> r]) : r \in Responses }
    \cup { MkObj([status |-> s, response |-> r])
            : s \in OtherStatuses, r \in OtherResponses }
    \cup {JNull, JArr(<< >>)}

Envelope(status, status_code, content_type, body) ==
    MkObj([status |-> status,
           response |-> Response(status_code, content_type, body)])

SuccessEnvelope ==
    Envelope(JStr("done"), JInt(200), JStr(JSON), JObj("a" :> JInt(1)))
NotFoundEnvelope == Envelope(JStr("done"), JInt(404), JStr(JSON), Absent)
ServerErrorEnvelope ==
    Envelope(JStr("done"), JInt(500), JStr("text/html"), Absent)
PendingEnvelope == MkObj([status |-> JStr("pending"), response |-> Absent])

(* What the network does with one POST.                                    *)

HttpStatuses == {200, 502}

Failure(phase) == [phase |-> phase, status |-> 0, json |-> FALSE, body |-> JNull]
Undecodable(st) == [phase |-> "http", status |-> st, json |-> FALSE, body |-> JNull]
Answer(st, doc) == [phase |-> "http", status |-> st, json |-> TRUE, body |-> doc]

Nets ==
    { Failure(p) : p \in {"build", "timeout", "connect"} }
    \cup { Undecodable(st) : st \in HttpStatuses }
    \cup { Answer(200, d) : d \in Documents }
    \cup { Answer(502, d) : d \in {SuccessEnvelope, PendingEnvelope} }

\* one network behaviour for each outcome of a dispatch
SmallNets ==
    { Failure("timeout"), Answer(200, SuccessEnvelope),
      Answer(200, NotFoundEnvelope), Answer(200, PendingEnvelope) }

--------------------------------------------------------------------------
(* The client.                                                             *)

Clients == {"InstagramAPI", "ThreadsAPI"}

\* InstagramAPI::new, ThreadsAPI::new
new == [last_response |-> JNull, counter |-> U32Zero]

\* a session that has already made 2^32 - 2 dispatches that reached the
\* service: the second of two more overflows the u32
LongSession == [last_response |-> NotFoundEnvelope, counter |-> U32(Half - 1, Half - 2)]

NoCall ==
    [op |-> "none", opts |-> NoOpts, reqs |-> << >>, sends |-> << >>, nets |-> << >>,
     tres |-> << >>, results |-> << >>, c0 |-> U32Zero, made |-> U32Zero,
     succeeded |-> U32Zero, lastdoc |-> JNull]

\* the callers that share the one instance
Callers == {"caller1", "caller2"}

\* a caller that has not called yet
Idle == [pc |-> "idle", response |-> JNull, tmp |-> U32Zero, result |-> << >>]

Init ==
    /\ client \in Clients
    /\ \E s \in {new, LongSession} :
        /\ last_response = s.last_response
        /\ counter = s.counter
    /\ calls = 0
    /\ h = [NoCall EXCEPT !.made = counter, !.succeeded = counter,
                          !.lastdoc = last_response]
    /\ borrow = "none"
    /\ task = [c \in Callers |-> Idle]
    /\ log = [c0 |-> counter, docs |-> << >>]

\* self.request(method, data) on the client that was constructed
Request(self, method, data, net) ==
    IF client = "InstagramAPI"
    THEN InstagramAPI_request(self, method, data, net)
    ELSE ThreadsAPI_request(self, method, data, net)

\* the `self.request` calls of one operation, in order, each awaited
\* before the next; nets[i] is what the network does with the i-th
RECURSIVE Run(_, _, _)
Run(self, reqs, nets) ==
    IF Len(reqs) = 0 THEN
        [last_response |-> self.last_response, counter |-> self.counter,
         sends |-> << >>, tres |-> << >>, results |-> << >>]
    ELSE
        LET r == Request(self, Head(reqs).method, Head(reqs).data, Head(nets))
            rest == Run([last_response |-> r.last_response, counter |-> r.counter],
                        Tail(reqs), Tail(nets))
        IN  [last_response |-> rest.last_response, counter |-> rest.counter,
             sends |-> r.sends \o rest.sends,
             tres |-> << r.tres >> \o rest.tres,
             results |-> << r.result >> \o rest.results]

\* the adapter calls that got as far as `send`: the POST was issued
Posted(ns) == Cardinality({i \in DOMAIN ns : ns[i].phase # "build"})

\* the documents among the adapter's results, in order
RECURSIVE Returned(_)
Returned(tres) ==
    IF tres = << >> THEN << >>
    ELSE (IF Head(tres).ok THEN << Head(tres).val >> ELSE << >>) \o Returned(Tail(tres))

\* one public operation, from its call to its return
Call(ops, nets) ==
    /\ calls < MaxCalls
    /\ \E c \in ops :
        \E ns \in [1 .. Len(c.reqs) -> nets] :
            LET r == Run([last_response |-> last_response, counter |-> counter],
                         c.reqs, ns)
            IN  /\ last_response' = r.last_response
                /\ counter' = r.counter
                /\ h' = [op |-> c.op, opts |-> c.opts, reqs |-> c.reqs, sends |-> r.sends,
                         nets |-> ns, tres |-> r.tres, results |-> r.results,
                         c0 |-> counter,
                         made |-> NatPlus(h.made, Posted(ns)),
                         succeeded |-> NatPlus(h.succeeded, Len(Returned(r.tres))),
                         lastdoc |-> IF Returned(r.tres) = << >> THEN h.lastdoc
                                     ELSE Returned(r.tres)[Len(Returned(r.tres))]]
    /\ calls' = calls + 1
    /\ UNCHANGED <<client, borrow, task, log>>

\* the operations Spec dispatches through
CoreOps == {"search", "get_hashtag_info", "get_thread_likes"}

InstagramCall ==
    /\ client = "InstagramAPI"
    /\ Call({c \in InstagramAPICalls : c.op \in CoreOps}, Nets)

ThreadsCall ==
    /\ client = "ThreadsAPI"
    /\ Call({c \in ThreadsAPICalls : c.op \in CoreOps}, Nets)

Next == InstagramCall \/ ThreadsCall

\* every network behaviour, a few operations
Spec == Init /\ [][Next]_vars

InstagramOperation ==
    /\ client = "InstagramAPI"
    /\ Call(InstagramAPICalls, SmallNets)

ThreadsOperation ==
    /\ client = "ThreadsAPI"
    /\ Call(ThreadsAPICalls, SmallNets)

NextOps == InstagramOperation \/ ThreadsOperation

\* every operation, one network behaviour for each outcome
SpecOps == Init /\ [][NextOps]_vars

--------------------------------------------------------------------------
(* Several callers of one instance.  Every public operation and `request`  *)
(* take `&mut self`: a caller holds the exclusive borrow of the client     *)
(* from its call to its return, the await of the transport included, and   *)
(* a second caller gets hold of the client only after that (behind the     *)
(* lock or the owner task the sharing needs).  `request` is taken          *)
(* statement by statement, so that the serialisation is the borrow's       *)
(* doing and not the grain of the steps.                                   *)

\* `&mut self`: the client can be borrowed when nobody holds it
MutBorrow(holder) == holder = "none"

\* the operation every caller makes
SharedRequest ==
    IF client = "InstagramAPI" THEN InstagramAPI_search("a")[1]
                               ELSE ThreadsAPI_get_thread_likes(7)[1]

RequestOk(self, response) ==
    IF client = "InstagramAPI" THEN InstagramAPI_request_Ok(self, response)
                               ELSE ThreadsAPI_request_Ok(self, response)

RequestErr(self, e) ==
    IF client = "InstagramAPI" THEN InstagramAPI_request_Err(self, e)
                               ELSE ThreadsAPI_request_Err(self, e)

\* the caller takes the client and calls the operation: the request is on
\* its way
Begin(c) ==
    /\ task[c].pc = "idle"
    /\ MutBorrow(borrow)
    /\ borrow' = c
    /\ task' = [task EXCEPT ![c].pc = "awaiting"]
    /\ UNCHANGED <<client, last_response, counter, calls, h, log>>

\* self.api.request(method, data).await returns; the Err arm returns at once
Receive(c) ==
    /\ task[c].pc = "awaiting"
    /\ \E net \in SmallNets :
        LET r == RocketAPI_request(SharedRequest.method, SharedRequest.data, net)
            self == [last_response |-> last_response, counter |-> counter]
        IN  IF r.ok THEN
                /\ task' = [task EXCEPT ![c].pc = "store_response",
                                        ![c].response = r.val]
                /\ UNCHANGED borrow
            ELSE
                /\ task' = [task EXCEPT ![c].pc = "done",
                                        ![c].result = << RequestErr(self, r.val).result >>]
                /\ borrow' = IF borrow = c THEN "none" ELSE borrow
    /\ UNCHANGED <<client, last_response, counter, calls, h, log>>

\* self.last_response = response.clone()
StoreResponse(c) ==
    /\ task[c].pc = "store_response"
    /\ last_response' =
          RequestOk([last_response |-> last_response, counter |-> counter],
                    task[c].response).last_response
    /\ log' = [log EXCEPT !.docs = Append(@, task[c].response)]
    /\ task' = [task EXCEPT ![c].pc = "load_counter"]
    /\ UNCHANGED <<client, counter, calls, h, borrow>>

\* self.counter += 1, the read
LoadCounter(c) ==
    /\ task[c].pc = "load_counter"
    /\ task' = [task EXCEPT ![c].pc = "store_counter", ![c].tmp = counter]
    /\ UNCHANGED <<client, last_response, counter, calls, h, borrow, log>>

\* self.counter += 1, the write; then the classification and the return
StoreCounter(c) ==
    /\ task[c].pc = "store_counter"
    /\ LET arm == RequestOk([last_response |-> last_response,
                             counter |-> task[c].tmp], task[c].response)
       IN  /\ counter' = arm.counter
           /\ task' = [task EXCEPT ![c].pc = "done", ![c].result = << arm.result >>]
    /\ borrow' = IF borrow = c THEN "none" ELSE borrow
    /\ UNCHANGED <<client, last_response, calls, h, log>>

NextShared ==
    \E c \in Callers :
        \/ Begin(c)
        \/ Receive(c)
        \/ StoreResponse(c)
        \/ LoadCounter(c)
        \/ StoreCounter(c)

\* the callers of one shared instance, one dispatch each
SpecShared == Init /\ [][NextShared]_vars

--------------------------------------------------------------------------
(* Vocabulary of the properties.  h records the most recent operation:     *)
(* the dispatches it asked for (reqs), the calls that reached the adapter  *)
(* (sends), what the network did with each (nets), what the adapter        *)
(* returned (tres), what `request` returned (results) and the counter      *)
(* before the operation (c0); opts are the optional arguments the          *)
(* operation was called with, by the payload key of each.  h.succeeded    *)
(* counts the dispatches whose transport call returned a document since    *)
(* the client was constructed, and h.lastdoc is the last such document     *)
(* (null when there was none).  h.made counts the requests the client has   *)
(* posted since it was constructed.                                        *)

\* an operation has been made, and it dispatched once
Dispatched == h.op # "none" /\ Len(h.tres) = 1
TransportOk == Dispatched /\ h.tres[1].ok
TransportFailed == Dispatched /\ ~h.tres[1].ok
\* the document the transport returned, and what the dispatch returned
Doc == h.tres[1].val
Outcome == h.results[1]

\* the document is an object whose member `key` is exactly `x`
HasMember(d, key, x) == d.k = "obj" /\ key \in DOMAIN d.v /\ d.v[key] = x
HasKey(d, key) == d.k = "obj" /\ key \in DOMAIN d.v
Member(d, key) == d.v[key]

StatusDone(d) == HasMember(d, "status", JStr("done"))
\* the inner status code is the JSON integer n
InnerCode(d, n) ==
    HasKey(d, "response") /\ HasMember(Member(d, "response"), "status_code", JInt(n))
InnerJson(d) ==
    HasKey(d, "response") /\ HasMember(Member(d, "response"), "content_type", JStr(JSON))
SuccessShape(d) == StatusDone(d) /\ InnerCode(d, 200) /\ InnerJson(d)
\* the nested body, null when there is none
NestedBody(d) ==
    IF HasKey(Member(d, "response"), "body")
    THEN Member(Member(d, "response"), "body") ELSE JNull

--------------------------------------------------------------------------
(* C1.  A dispatch whose transport call fails (client build, timeout,      *)
(* connection fault, undecodable body) returns RequestError carrying the   *)
(* cause, and the step leaves last_response and counter as they were.      *)
C1_FailureStep ==
    (Len(h'.tres) = 1 /\ ~h'.tres[1].ok) =>
        /\ h'.results = << RequestError(h'.tres[1].val) >>
        /\ last_response' = last_response
        /\ counter' = counter

C2_SuccessCountsOne ==
    TransportOk =>
        /\ counter = NatSucc(h.c0)
        /\ last_response = Doc

(* C3.  A dispatch returns success exactly for the documents with status   *)
(* "done", status_code the integer 200 and content_type                    *)
(* "application/json", and the value is the nested body.                   *)
C3_SuccessIffDone200Json ==
    TransportOk =>
        /\ (Outcome.kind = "Ok") <=> SuccessShape(Doc)
        /\ SuccessShape(Doc) => Outcome = Ok(NestedBody(Doc))

C3_Witness ==
    /\ TransportOk
    /\ Doc = SuccessEnvelope
    /\ Outcome = Ok(JObj("a" :> JInt(1)))

(* C4.  A dispatch returns NotFound exactly for the documents with status  *)
(* "done" and status_code the integer 404, whatever the content_type, and  *)
(* the error carries the whole document.                                   *)
C4_NotFoundIffDone404 ==
    TransportOk =>
        /\ (Outcome.kind = "NotFound") <=> (StatusDone(Doc) /\ InnerCode(Doc, 404))
        /\ (StatusDone(Doc) /\ InnerCode(Doc, 404)) => Outcome = NotFound(Doc)

\* a 404 whose content_type is not application/json
C4_Witness ==
    /\ TransportOk
    /\ Doc = Envelope(JStr("done"), JInt(404), JStr("text/html"), Absent)
    /\ Outcome = NotFound(Doc)

(* C5.  A document whose status is not the string "done" (absent and       *)
(* mistyped included) gives BadResponse carrying the whole document,       *)
(* whatever its response is.                                               *)
C5_NotDoneIsBadResponse ==
    (TransportOk /\ ~StatusDone(Doc)) => Outcome = BadResponse(Doc)

\* status "pending" around the response of a success
C5_Witness ==
    /\ TransportOk
    /\ Doc = Envelope(JStr("pending"), JInt(200), JStr(JSON), JObj("a" :> JInt(1)))
    /\ Outcome = BadResponse(Doc)

(* C6.  A document with status "done" whose inner values are neither       *)
(* (200, "application/json") nor status_code 404 gives BadResponse         *)
(* carrying the whole document.                                            *)
C6_DoneOtherIsBadResponse ==
    (TransportOk /\ StatusDone(Doc) /\ ~SuccessShape(Doc) /\ ~InnerCode(Doc, 404))
        => Outcome = BadResponse(Doc)

\* 200 with another content type
C6_Witness ==
    /\ TransportOk
    /\ Doc = Envelope(JStr("done"), JInt(200), JStr("text/html"), JObj("a" :> JInt(1)))
    /\ Outcome = BadResponse(Doc)

(* C7.  Every transport result gives exactly one outcome, one of Ok,       *)
(* NotFound, BadResponse and RequestError: RequestError for a failure and  *)
(* only for a failure, one of the other three for a document.              *)
OutcomeKinds == {"Ok", "NotFound", "BadResponse", "RequestError"}

Deviating(d) ==
    \/ ~HasKey(d, "status")
    \/ ~HasKey(d, "response")
    \/ Member(d, "response").k # "obj"
    \/ ~HasKey(Member(d, "response"), "status_code")
    \/ Member(Member(d, "response"), "status_code").k # "int"
    \/ ~HasKey(Member(d, "response"), "content_type")
    \/ Member(Member(d, "response"), "content_type").k # "str"

Coerced(d) ==
    LET r == IF HasKey(d, "response") THEN Member(d, "response") ELSE JNull
        sc == IF HasKey(r, "status_code") /\ Member(r, "status_code").k = "int"
              THEN Member(r, "status_code") ELSE JInt(0)
        ct == IF HasKey(r, "content_type") /\ Member(r, "content_type").k = "str"
              THEN Member(r, "content_type") ELSE JStr("")
    IN  Envelope(IF HasKey(d, "status") THEN Member(d, "status") ELSE Absent,
                 sc, ct,
                 IF HasKey(r, "body") THEN Member(r, "body") ELSE Absent)

C9_RepeatStep ==
    (/\ TransportOk
     /\ Len(h'.tres) = 1
     /\ h'.reqs = h.reqs
     /\ h'.tres = h.tres
     /\ calls' = calls + 1)
        => /\ h'.results = h.results
           /\ counter' = NatSucc(NatSucc(h.c0))

\* C9: every repeated dispatch with the same document returns the same
\* outcome and leaves counter two above its value before the first
C9_RepeatedDispatch == [][C9_RepeatStep]_vars

(* C10.  Every public operation dispatches exactly once, and the dispatch  *)
(* calls the adapter exactly once, with the method path and the payload    *)
(* the operation built, whatever the outcome.                              *)
C10_OneSendPerOperation ==
    h.op # "none" =>
        /\ Len(h.reqs) = 1
        /\ h.sends = h.reqs
        /\ Len(h.results) = 1

\* the single-id wrapper, ending in NotFound
C10_Witness ==
    /\ h.op = "get_user_stories"
    /\ h.sends = << [method |-> "instagram/user/get_stories",
                     data |-> JObj("ids" :> JArr(<< JInt(7) >>))] >>
    /\ Outcome.kind = "NotFound"

--------------------------------------------------------------------------
\* what the network did with the one send of the most recent operation
Net == h.nets[1]
HttpResponse == Net.phase = "http"

(* C11.  The adapter returns Ok(document) for every HTTP response it       *)
(* receives, whatever its HTTP status, and fails only for a timeout or a   *)
(* fault of the transport (the client that cannot be built, the            *)
(* connection).                                                            *)
C11_EveryResponseIsOk ==
    Dispatched =>
        /\ HttpResponse => h.tres[1].ok
        /\ ~h.tres[1].ok =>
              h.tres[1].val \in { ReqwestError(c) : c \in {"builder", "timeout", "connect"} }

(* C11, with the undecodable body: the adapter returns Ok(document)        *)
(* exactly for the HTTP responses whose body is a JSON document, whatever  *)
(* the HTTP status, and the value is that document; a response whose body  *)
(* is not JSON is a failure, as a timeout and a transport fault are.       *)
C11_DecodedResponseIsOk ==
    Dispatched =>
        /\ h.tres[1].ok <=> (HttpResponse /\ Net.json)
        /\ h.tres[1].ok => h.tres[1].val = Net.body
        /\ (HttpResponse /\ ~Net.json) => h.tres[1] = [ok |-> FALSE, val |-> ReqwestError("decode")]
        /\ ~HttpResponse =>
              h.tres[1].val \in { ReqwestError(c) : c \in {"builder", "timeout", "connect"} }

\* a 502 whose body is a JSON document
C11_Witness ==
    /\ Dispatched
    /\ Net = Answer(502, PendingEnvelope)
    /\ h.tres[1] = [ok |-> TRUE, val |-> PendingEnvelope]

C13_CounterIsRequestsMade == counter = h.made

--------------------------------------------------------------------------
\* the payload the most recent operation handed to `request`
Payload == h.reqs[1].data

(* C14.  For every operation and every optional argument of it: when the   *)
(* argument is absent the payload has no member under its key, and when    *)
(* it is given the member is the given value.                              *)
C14_AbsentIsOmitted ==
    h.op # "none" =>
        \A key \in DOMAIN h.opts :
            IF h.opts[key].some
            THEN HasMember(Payload, key, h.opts[key].val)
            ELSE ~HasKey(Payload, key)

\* the optional arguments the operations replace by a value of their own
\* when they are absent
Defaulted == [count |-> JInt(12), can_support_threading |-> JBool(TRUE)]

(* C14, with the defaults: a given optional argument is sent as given; an  *)
(* absent count is sent as 12 and an absent can_support_threading as       *)
(* true; every other absent optional argument has no member in the         *)
(* payload, and none is sent as null.                                      *)
C14_AbsentIsOmittedOrDefaulted ==
    h.op # "none" =>
        \A key \in DOMAIN h.opts :
            IF h.opts[key].some THEN HasMember(Payload, key, h.opts[key].val)
            ELSE IF key \in DOMAIN Defaulted THEN HasMember(Payload, key, Defaulted[key])
            ELSE ~HasKey(Payload, key)

\* get_user_media called with neither count nor max_id
C14_Witness ==
    /\ h.op = "get_user_media"
    /\ h.opts = [count |-> None, max_id |-> None]
    /\ Payload = JObj("id" :> JInt(7) @@ "count" :> JInt(12))

--------------------------------------------------------------------------
\* the u32 one above c, 0 above the largest
U32Succ(c) == IF c = U32(Half - 1, Half - 1) THEN U32Zero ELSE NatSucc(c)

--------------------------------------------------------------------------
\* every caller has returned
AllReturned == \A c \in Callers : task[c].pc = "done"
\* the documents the callers stored, in the order of the stores
Stored == log.docs

(* C16.  Callers that share one client are serialised: when all have       *)
(* returned, counter is above its value at the start by exactly the        *)
(* number of dispatches whose transport call succeeded, and last_response  *)
(* is the document of the dispatch that stored last.                       *)
C16_SharedUpdatesSerialized ==
    AllReturned =>
        /\ counter = NatPlus(log.c0, Len(Stored))
        /\ Stored # << >> => last_response = Stored[Len(Stored)]

\* the same with the counter taken as the u32 it is: no increment is lost
\* and the two fields are of the same dispatch; what is left of C16 is the
\* overflow of C2
UpdatesSerializedModulo ==
    AllReturned =>
        /\ \/ Len(Stored) = 0 /\ counter = log.c0
           \/ Len(Stored) = 1 /\ counter = U32Succ(log.c0)
           \/ Len(Stored) = 2 /\ counter = U32Succ(U32Succ(log.c0))
        /\ Stored # << >> => last_response = Stored[Len(Stored)]

\* one caller at most is between its call and its return
OneCallerInFlight ==
    Cardinality({c \in Callers : task[c].pc \notin {"idle", "done"}}) <= 1

--------------------------------------------------------------------------
(* C17.  The two dispatchers are the same algorithm.  At every dispatch,   *)
(* InstagramAPI::request and ThreadsAPI::request applied to the session    *)
(* state before it, the same method and payload and the same transport     *)
(* result give the same outcome and the same last_response and counter,    *)
(* and these are what the client that ran has; so two clients run side by  *)
(* side from equal states stay equal step after step.                      *)
C17_SameStep ==
    (calls' = calls + 1 /\ Len(h'.reqs) = 1) =>
        LET self == [last_response |-> last_response, counter |-> counter]
            req == h'.reqs[1]
            instagram == InstagramAPI_request(self, req.method, req.data, h'.nets[1])
            threads == ThreadsAPI_request(self, req.method, req.data, h'.nets[1])
        IN  /\ instagram = threads
            /\ h'.results = << instagram.result >>
            /\ last_response' = instagram.last_response
            /\ counter' = instagram.counter

\* C17: every dispatch is the same step of InstagramAPI::request and of
\* ThreadsAPI::request
C17_DispatchersAgree == [][C17_SameStep]_vars

\* the second dispatch of a Threads client, a 404 after a success
C17_Witness ==
    /\ client = "ThreadsAPI"
    /\ calls = 2
    /\ counter = U32(0, 2)
    /\ TransportOk
    /\ Doc = NotFoundEnvelope
    /\ Outcome = NotFound(NotFoundEnvelope)
    /\ Outcome = InstagramAPI_request([last_response |-> SuccessEnvelope,
                                       counter |-> U32(0, 1)],
                                      h.reqs[1].method, h.reqs[1].data, Net).result

--------------------------------------------------------------------------
\* a <= b, as numbers
Leq(a, b) == a.hi < b.hi \/ (a.hi = b.hi /\ a.lo <= b.lo)

\* the client as constructed, before any dispatch
Fresh == h.op = "none" /\ h.made = U32Zero

\* what C18 says of last_response, of a new client and of the errors
SessionStateButCount ==
    /\ Fresh => (counter = U32Zero /\ last_response = JNull)
    /\ last_response = h.lastdoc
    /\ (Dispatched /\ Outcome.kind \in {"NotFound", "BadResponse"}) =>
          Outcome.val = last_response

\* what C18 says of counter
SessionCount == counter = h.succeeded

(* C18.  The session state over any sequence of dispatches: a new client   *)
(* has counter 0 and last_response null; counter is the number of          *)
(* dispatches whose transport call succeeded and never decreases;          *)
(* last_response is the document of the most recent of them, null when     *)
(* there was none; the document an error NotFound or BadResponse carries   *)
(* is last_response as the call leaves it.                                 *)
C18_SessionInvariant ==
    /\ [](SessionStateButCount /\ SessionCount)
    /\ [][Leq(counter, counter')]_vars

==========================================================================
